---- MODULE Spec2Model ----
(***************************************************************************)
(* A model of the dictionary page (src/dictionary/main.js): the            *)
(* RandomDictionary store with its indexes, the matcher, the search        *)
(* routine, the random picks, and the page-level search session with its   *)
(* result cache and deferred search callbacks.                             *)
(*                                                                         *)
(* Strings are sequences of one-character strings.  A JSON value is a      *)
(* record tagged by its JavaScript type in field t.  Scores are exact      *)
(* fractions [num, den] in lowest terms: the edit-distance tier yields     *)
(* (maxLength - editDist) / maxLength * 100, which is not an integer in    *)
(* general.                                                                *)
(***************************************************************************)
EXTENDS Integers, Sequences, FiniteSets, TLC

VARIABLES
    words,                \* this.words: the entries, in load order
    isLoaded,             \* this.isLoaded
    wordIndex,            \* this.wordIndex: lowercased word -> {entry, index}
    sortedWords,          \* this.sortedWords
    call,                 \* the last call of the store and what came of it
    pc,                   \* "idle", or "drawing" inside getMultipleRandomWords
    maxCount,             \* getMultipleRandomWords: maxCount
    selectedIndices,      \* getMultipleRandomWords: selectedIndices
    result,               \* getMultipleRandomWords: result (store positions)
    inputValue,           \* searchInput.value
    searchDebounceTimer,  \* the pending debounce timeout: <<>> or <<query>>
    rafQueue,             \* the terms of the pending requestAnimationFrame
                          \* callbacks of performLiveSearch, oldest first
    cachedSearchResults,  \* the Map, as its [key, value] in insertion order
    currentSearchResults,
    currentSearchTerm,
    displayedResultsCount,
    wordDisplay,          \* #wordDisplay: the search results rendered in it,
                          \* and whether the load-more button is under them
    isSearchMode,
    lastSearchTerm,
    issued,               \* searchTerm of the latest performLiveSearch call
                          \* on a loaded store; <<>> after clearSearch
    insertions            \* the keys set in the Map since it was last empty,
                          \* in the order of their first cachedSearchResults.set

storeVars == <<words, isLoaded, wordIndex, sortedWords>>
drawVars == <<pc, maxCount, selectedIndices, result>>
shownVars ==
    <<currentSearchResults, currentSearchTerm, displayedResultsCount,
      wordDisplay>>
pageVars ==
    <<inputValue, searchDebounceTimer, rafQueue, cachedSearchResults,
      currentSearchResults, currentSearchTerm, displayedResultsCount,
      wordDisplay, isSearchMode, lastSearchTerm, issued, insertions>>

-----------------------------------------------------------------------------
(* Strings *)

\* String.prototype.toLowerCase on one character of the alphabet in use.
LowerChar(c) ==
    CASE c = "A" -> "a"
      [] c = "B" -> "b"
      [] c = "C" -> "c"
      [] OTHER -> c

ToLowerCase(s) == [i \in 1..Len(s) |-> LowerChar(s[i])]

IsSpace(c) == c = " "

RECURSIVE TrimStart(_)
TrimStart(s) ==
    IF s # <<>> /\ IsSpace(Head(s)) THEN TrimStart(Tail(s)) ELSE s

RECURSIVE TrimEnd(_)
TrimEnd(s) ==
    IF s # <<>> /\ IsSpace(s[Len(s)])
    THEN TrimEnd(SubSeq(s, 1, Len(s) - 1))
    ELSE s

\* String.prototype.trim
Trim(s) == TrimEnd(TrimStart(s))

\* String.prototype.startsWith
StartsWith(s, t) == Len(t) <= Len(s) /\ SubSeq(s, 1, Len(t)) = t

\* String.prototype.includes
Includes(s, t) ==
    \E k \in 0..(Len(s) - Len(t)) : SubSeq(s, k + 1, k + Len(t)) = t

\* The collation rank of a character: white space, digits, letters.
CharRank(c) ==
    CASE c = " " -> 0
      [] c = "0" -> 1
      [] c = "7" -> 2
      [] c = "a" -> 3
      [] c = "A" -> 4
      [] c = "b" -> 5
      [] c = "B" -> 6
      [] c = "c" -> 7
      [] c = "C" -> 8
      [] c = "d" -> 9
      [] c = "e" -> 10
      [] c = "i" -> 11
      [] c = "l" -> 12
      [] c = "n" -> 13
      [] c = "o" -> 14
      [] c = "p" -> 15
      [] c = "t" -> 16
      [] OTHER -> 17

\* String.prototype.localeCompare on lowercased words: negative, zero or
\* positive, by the first position where the two differ.
RECURSIVE localeCompare(_, _)
localeCompare(a, b) ==
    IF a = <<>> /\ b = <<>> THEN 0
    ELSE IF a = <<>> THEN -1
    ELSE IF b = <<>> THEN 1
    ELSE IF CharRank(Head(a)) < CharRank(Head(b)) THEN -1
    ELSE IF CharRank(Head(a)) > CharRank(Head(b)) THEN 1
    ELSE localeCompare(Tail(a), Tail(b))

Min(a, b) == IF a <= b THEN a ELSE b
Max(a, b) == IF a >= b THEN a ELSE b
Abs(a) == IF a < 0 THEN -a ELSE a

-----------------------------------------------------------------------------
(* Scores *)

RECURSIVE GCD(_, _)
GCD(a, b) == IF b = 0 THEN a ELSE GCD(b, a % b)

\* The number n / d, d > 0, in lowest terms.
Frac(n, d) == [num |-> n \div GCD(n, d), den |-> d \div GCD(n, d)]

Whole(n) == [num |-> n, den |-> 1]

\* a.score - b.score: its sign
ScoreCmp(a, b) ==
    IF a.num * b.den < b.num * a.den THEN -1
    ELSE IF a.num * b.den > b.num * a.den THEN 1
    ELSE 0

ScoreGreater(a, b) == ScoreCmp(a, b) = 1

-----------------------------------------------------------------------------
(* Matcher *)

\* One row of the table of _editDistance: cur holds dp[i][0..Len(cur)-1],
\* prev is dp[i-1]; cell j of a row is element j + 1 of the sequence.
RECURSIVE dpRow(_, _, _, _, _)
dpRow(s1, s2, i, prev, cur) ==
    IF Len(cur) = Len(s2) + 1 THEN cur
    ELSE LET j == Len(cur)
             cell == IF s1[i] = s2[j]
                     THEN prev[j]
                     ELSE 1 + Min(prev[j + 1], Min(cur[j], prev[j]))
         IN dpRow(s1, s2, i, prev, Append(cur, cell))

RECURSIVE dpTable(_, _, _, _)
dpTable(s1, s2, i, prev) ==
    IF i > Len(s1) THEN prev
    ELSE dpTable(s1, s2, i + 1, dpRow(s1, s2, i, prev, <<i>>))

editDistance(s1, s2) ==
    dpTable(s1, s2, 1, [j \in 1..(Len(s2) + 1) |-> j - 1])[Len(s2) + 1]

\* The subsequence loop of _fuzzyMatch: termIndex when the loop ends.
RECURSIVE subsequenceIndex(_, _, _, _)
subsequenceIndex(strLower, termLower, i, termIndex) ==
    IF i < Len(strLower) /\ termIndex < Len(termLower)
    THEN subsequenceIndex(strLower, termLower, i + 1,
             IF strLower[i + 1] = termLower[termIndex + 1]
             THEN termIndex + 1 ELSE termIndex)
    ELSE termIndex

\* _fuzzyMatch with the subsequence check ahead of the contains check.
fuzzyMatchSubsequenceFirst(str, term) ==
    LET strLower == ToLowerCase(str)
        termLower == ToLowerCase(term)
    IN  IF strLower = termLower THEN Whole(100)
        ELSE IF subsequenceIndex(strLower, termLower, 0, 0) = Len(termLower)
             THEN Whole(60)
        ELSE IF Includes(strLower, termLower) THEN Whole(80)
        ELSE Whole(0)

fuzzyMatch(str, term) ==
    LET strLower == ToLowerCase(str)
        termLower == ToLowerCase(term)
    IN  IF strLower = termLower THEN Whole(100)
        ELSE IF Includes(strLower, termLower) THEN Whole(80)
        ELSE IF Abs(Len(strLower) - Len(termLower)) > Len(termLower)
             THEN Whole(0)
        ELSE IF subsequenceIndex(strLower, termLower, 0, 0) = Len(termLower)
             THEN Whole(60)
        ELSE IF Len(termLower) <= 8
             THEN LET maxLength == Max(Len(strLower), Len(termLower))
                      editDist == editDistance(strLower, termLower)
                      similarity ==
                          IF maxLength - editDist > 0
                          THEN Frac((maxLength - editDist) * 100, maxLength)
                          ELSE Whole(0)
                  IN IF ScoreGreater(similarity, Whole(40))
                     THEN similarity ELSE Whole(0)
        ELSE Whole(0)

-----------------------------------------------------------------------------
(* JSON values *)

Str(s) == [t |-> "string", v |-> s]
Num(digits) == [t |-> "number", v |-> digits]
Null == [t |-> "null", v |-> <<>>]
Undefined == [t |-> "undefined", v |-> <<>>]
Obj(w, d) == [t |-> "object", word |-> w, definition |-> d]

\* The truthiness of a property value: a non-empty string, a non-zero number.
Truthy(x) ==
    CASE x.t = "string" -> x.v # <<>>
      [] x.t = "number" -> x.v # <<"0">>
      [] OTHER -> FALSE

\* x.toString() of a string or a number
toString(x) == x.v

-----------------------------------------------------------------------------
(* Entry store *)

\* jsonData.filter(...).map(...) over the elements of an array.
filterMapArray(items) ==
    LET kept == SelectSeq(items,
                    LAMBDA entry : /\ entry.t = "object"
                                   /\ Truthy(entry.word)
                                   /\ Truthy(entry.definition))
    IN  [i \in 1..Len(kept) |->
            [word |-> Trim(toString(kept[i].word)),
             definition |-> Trim(toString(kept[i].definition))]]

\* Object.entries(jsonData).filter(...).map(...) over the pairs [key, value].
filterMapObject(pairs) ==
    LET kept == SelectSeq(pairs,
                    LAMBDA pair : pair.key # <<>> /\ Truthy(pair.value))
    IN  [i \in 1..Len(kept) |->
            [word |-> Trim(kept[i].key),
             definition |-> Trim(toString(kept[i].value))]]

EmptyMap == [k \in {} |-> 0]

\* The Map after the turns index = lo, ..., hi of the forEach on an empty
\* Map: set overwrites, so the later turn wins a key set twice.
RECURSIVE setWordIndexRange(_, _, _)
setWordIndexRange(w, lo, hi) ==
    IF lo > hi THEN EmptyMap
    ELSE IF lo = hi
         THEN ToLowerCase(w[lo + 1].word)
                  :> [entry |-> w[lo + 1], index |-> lo]
    ELSE LET mid == (lo + hi) \div 2
         IN setWordIndexRange(w, mid + 1, hi) @@ setWordIndexRange(w, lo, mid)

\* this.words.forEach((entry, index) => this.wordIndex.set(word, ...)) from
\* index on, on map.
setWordIndex(w, index, map) ==
    setWordIndexRange(w, index, Len(w) - 1) @@ map

\* One entry put in its place in a list already sorted: after every element
\* that does not compare greater (Array.prototype.sort is stable).
insertSorted(sorted, e) ==
    LET notGreater ==
            {i \in 1..Len(sorted) :
                localeCompare(ToLowerCase(sorted[i].word),
                              ToLowerCase(e.word)) <= 0}
        place == Cardinality(notGreater)
    IN  SubSeq(sorted, 1, place) \o <<e>>
        \o SubSeq(sorted, place + 1, Len(sorted))

\* The entries w[lo..hi] put into sorted one after the other.
\* (The test of Len(sorted) is never true: it has sorted evaluated before
\* the turns that follow.)
RECURSIVE sortRange(_, _, _, _)
sortRange(w, lo, hi, sorted) ==
    IF lo > hi \/ Len(sorted) < 0 THEN sorted
    ELSE IF lo = hi THEN insertSorted(sorted, w[lo])
    ELSE LET mid == (lo + hi) \div 2
         IN sortRange(w, mid + 1, hi, sortRange(w, lo, mid, sorted))

sortWords(w, sorted) == sortRange(w, 1, Len(w), sorted)

\* The indexes built from the entries w.
buildSearchIndexes(w) ==
    [wordIndex |-> setWordIndex(w, 0, EmptyMap),
     sortedWords |-> sortWords(w, <<>>)]

\* The store after parseJSON(jsonData), and whether it threw.
parseJSON(jsonData) ==
    IF jsonData.t \in {"array", "object"}
    THEN LET w == IF jsonData.t = "array"
                  THEN filterMapArray(jsonData.items)
                  ELSE filterMapObject(jsonData.items)
         IN IF Len(w) = 0
            THEN [threw |-> TRUE, words |-> w,
                  wordIndex |-> wordIndex, sortedWords |-> sortedWords]
            ELSE LET built == buildSearchIndexes(w)
                 IN [threw |-> FALSE, words |-> w,
                     wordIndex |-> built.wordIndex,
                     sortedWords |-> built.sortedWords]
    ELSE [threw |-> TRUE, words |-> words,
          wordIndex |-> wordIndex, sortedWords |-> sortedWords]

-----------------------------------------------------------------------------
(* Search *)

maxResults == 1000

\* Strategy 1: the entry of wordIndex under the lowercased term, score 100.
\* A match is [entry, pos, score]; pos is the entry's 0-based position in
\* this.words (the index kept by wordIndex, or the place of the scan).
exactMatches(termLower) ==
    IF termLower \in DOMAIN wordIndex
    THEN <<[entry |-> wordIndex[termLower].entry,
            pos |-> wordIndex[termLower].index,
            score |-> Whole(100)]>>
    ELSE <<>>

\* The fast checks with the two scores exchanged.
fastScoreExchanged(wordLower, termLower) ==
    IF StartsWith(wordLower, termLower) THEN Whole(80)
    ELSE IF Includes(wordLower, termLower) THEN Whole(90)
    ELSE Whole(0)

\* The fast checks of the scan: 90 for a prefix, 80 for a substring, and 0
\* for a word that is no fast match.
fastScore(wordLower, termLower) ==
    IF StartsWith(wordLower, termLower) THEN Whole(90)
    ELSE IF Includes(wordLower, termLower) THEN Whole(80)
    ELSE Whole(0)

\* One turn of the scan that leaves the loop one fast match late.
scanStepLateBreak(searchTerm, st, i) ==
    LET entry == words[i + 1]
        termLower == ToLowerCase(searchTerm)
        wordLower == ToLowerCase(entry.word)
    IN  IF wordLower = termLower
        THEN [st EXCEPT !.scanned = i + 1]
        ELSE LET score == fastScore(wordLower, termLower)
                 fast ==
                     IF score # Whole(0)
                     THEN Append(st.fastMatches,
                              [entry |-> entry, pos |-> i, score |-> score])
                     ELSE st.fastMatches
                 expensive ==
                     IF score = Whole(0) /\ Len(searchTerm) >= 3
                     THEN Append(st.expensiveMatches,
                              [entry |-> entry, pos |-> i])
                     ELSE st.expensiveMatches
             IN [fastMatches |-> fast, expensiveMatches |-> expensive,
                 scanned |-> i + 1,
                 done |-> Len(fast) > maxResults \div 2]

\* One turn of the scan without the skip of the words equal to the term.
scanStepNoSkip(searchTerm, st, i) ==
    LET entry == words[i + 1]
        termLower == ToLowerCase(searchTerm)
        wordLower == ToLowerCase(entry.word)
        score == fastScore(wordLower, termLower)
        fast ==
            IF score # Whole(0)
            THEN Append(st.fastMatches,
                     [entry |-> entry, pos |-> i, score |-> score])
            ELSE st.fastMatches
        expensive ==
            IF score = Whole(0) /\ Len(searchTerm) >= 3
            THEN Append(st.expensiveMatches, [entry |-> entry, pos |-> i])
            ELSE st.expensiveMatches
    IN  [fastMatches |-> fast, expensiveMatches |-> expensive,
         scanned |-> i + 1,
         done |-> Len(fast) >= maxResults \div 2]

\* One turn of the scan, for the entry at 0-based position i.  st holds the
\* lists collected so far, the position the scan has come to and whether it
\* has left the loop.
scanStep(searchTerm, st, i) ==
    LET entry == words[i + 1]
        termLower == ToLowerCase(searchTerm)
        wordLower == ToLowerCase(entry.word)
    IN  IF wordLower = termLower
        THEN [st EXCEPT !.scanned = i + 1]
        ELSE LET score == fastScore(wordLower, termLower)
                 fast ==
                     IF score # Whole(0)
                     THEN Append(st.fastMatches,
                              [entry |-> entry, pos |-> i, score |-> score])
                     ELSE st.fastMatches
                 expensive ==
                     IF score = Whole(0) /\ Len(searchTerm) >= 3
                     THEN Append(st.expensiveMatches,
                              [entry |-> entry, pos |-> i])
                     ELSE st.expensiveMatches
             IN [fastMatches |-> fast, expensiveMatches |-> expensive,
                 scanned |-> i + 1,
                 done |-> Len(fast) >= maxResults \div 2]

\* The turns for the positions lo, ..., hi in this order, up to the break:
\* the first half of them, then the second.
RECURSIVE scanRange(_, _, _, _)
scanRange(searchTerm, lo, hi, st) ==
    IF st.done \/ lo > hi THEN st
    ELSE IF lo = hi THEN scanStep(searchTerm, st, lo)
    ELSE LET mid == (lo + hi) \div 2
         IN scanRange(searchTerm, mid + 1, hi,
                scanRange(searchTerm, lo, mid, st))

\* Strategy 2: the scan of this.words from 0-based position i on, with the
\* lists collected so far; scanned is the position at which the scan ended.
scanWords(searchTerm, i, fastMatches, expensiveMatches) ==
    LET st == scanRange(searchTerm, i, Len(words) - 1,
                  [fastMatches |-> fastMatches,
                   expensiveMatches |-> expensiveMatches,
                   scanned |-> i, done |-> FALSE])
    IN  [fastMatches |-> st.fastMatches,
         expensiveMatches |-> st.expensiveMatches,
         scanned |-> IF st.done THEN st.scanned ELSE Max(i, Len(words))]

\* One turn of the fuzzy loop, for candidate i.  st holds results and
\* whether the loop has been left.
fuzzyStep(searchTerm, expensiveMatches, st, i) ==
    LET entry == expensiveMatches[i + 1].entry
        wordScore == fuzzyMatch(entry.word, searchTerm)
        pushed == IF ScoreGreater(wordScore, Whole(0))
                  THEN Append(st.results,
                           [entry |-> entry,
                            pos |-> expensiveMatches[i + 1].pos,
                            score |-> wordScore])
                  ELSE st.results
    IN  [results |-> pushed, done |-> Len(pushed) >= maxResults]

\* The turns for the candidates lo, ..., hi in this order, up to the break.
RECURSIVE fuzzyRange(_, _, _, _, _)
fuzzyRange(searchTerm, expensiveMatches, lo, hi, st) ==
    IF st.done \/ lo > hi THEN st
    ELSE IF lo = hi THEN fuzzyStep(searchTerm, expensiveMatches, st, lo)
    ELSE LET mid == (lo + hi) \div 2
         IN fuzzyRange(searchTerm, expensiveMatches, mid + 1, hi,
                fuzzyRange(searchTerm, expensiveMatches, lo, mid, st))

\* The fuzzy loop from candidate i on; results is the list collected so far.
fuzzyLoop(searchTerm, expensiveMatches, i, fuzzyLimit, results) ==
    fuzzyRange(searchTerm, expensiveMatches, i, fuzzyLimit - 1,
               [results |-> results, done |-> FALSE]).results

\* results before the sort, with the fuzzy loop run whatever their number.
collectResultsAlwaysFuzzy(searchTerm) ==
    LET scan == scanWords(searchTerm, 0, <<>>, <<>>)
        results == exactMatches(ToLowerCase(searchTerm)) \o scan.fastMatches
    IN  IF Len(scan.expensiveMatches) > 0
        THEN fuzzyLoop(searchTerm, scan.expensiveMatches, 0,
                       Min(Len(scan.expensiveMatches), 500), results)
        ELSE results

\* results before the sort: the exact match, the fast matches, the fuzzy ones.
collectResults(searchTerm) ==
    LET scan == scanWords(searchTerm, 0, <<>>, <<>>)
        results == exactMatches(ToLowerCase(searchTerm)) \o scan.fastMatches
    IN  IF Len(results) < 50 /\ Len(scan.expensiveMatches) > 0
        THEN fuzzyLoop(searchTerm, scan.expensiveMatches, 0,
                       Min(Len(scan.expensiveMatches), 500), results)
        ELSE results

\* results.sort((a, b) => b.score - a.score): the sort is stable, so the
\* sorted list is, for each score from the highest down, the elements of
\* that score in their order in results.
RECURSIVE sortGroups(_, _)
sortGroups(results, scores) ==
    IF scores = {} THEN <<>>
    ELSE LET top == CHOOSE s \in scores :
                        \A u \in scores : ScoreCmp(s, u) >= 0
         IN SelectSeq(results, LAMBDA r : r.score = top)
            \o sortGroups(results, scores \ {top})

\* results left in the order of their collection.
sortByScoreSkipped(results) == results

sortByScore(results) ==
    sortGroups(results, {results[i].score : i \in 1..Len(results)})

\* searchMatches without the check of the term.
searchMatchesAnyTerm(searchTerm) ==
    IF ~isLoaded THEN <<>>
    ELSE LET sorted == sortByScore(collectResults(searchTerm))
         IN SubSeq(sorted, 1, Min(Len(sorted), maxResults))

\* The matches behind the list searchWords returns, in its order.
searchMatches(searchTerm) ==
    IF ~isLoaded \/ searchTerm = <<>> THEN <<>>
    ELSE LET sorted == sortByScore(collectResults(searchTerm))
         IN SubSeq(sorted, 1, Min(Len(sorted), maxResults))

\* {...entry, score, matchType}
toResult(m) ==
    [word |-> m.entry.word, definition |-> m.entry.definition,
     score |-> m.score, matchType |-> "word"]

searchWords(searchTerm) ==
    LET matches == searchMatches(searchTerm)
    IN [i \in 1..Len(matches) |-> toResult(matches[i])]

-----------------------------------------------------------------------------
(* Random picks *)

\* getRandomWord with Math.floor(Math.random() * this.words.length) =
\* randomIndex; null is Null.
getRandomWord(randomIndex) ==
    IF ~isLoaded \/ Len(words) = 0 THEN Null
    ELSE words[randomIndex + 1]

\* The values Math.floor(Math.random() * this.words.length) can take.
RandomIndices == 0..Max(Len(words) - 1, 0)

-----------------------------------------------------------------------------
(* Inputs *)

MaxEntries == 2
MaxCount == 3

\* The elements a dataset of shape (a) is made of: two entries whose words
\* differ by case only, padded values, a number as definition, a word of
\* white space only, and an element the filter drops.
Items ==
    { Obj(Str(<<"a", "b">>), Str(<<"x">>)),
      Obj(Str(<<" ", "A", "b", " ">>), Str(<<" ", "y", " ">>)),
      Obj(Str(<<"b", "a">>), Num(<<"7">>)),
      Obj(Str(<<" ">>), Str(<<"x">>)),
      Obj(Str(<<>>), Str(<<"x">>)) }

\* The key-value pairs a dataset of shape (b) is made of.
Pairs ==
    { [key |-> <<"a", "b">>, value |-> Str(<<"x">>)],
      [key |-> <<"A", "b">>, value |-> Str(<<" ", "y">>)],
      [key |-> <<"b", "a">>, value |-> Num(<<"0">>)] }

SeqsUpTo(S, n) == UNION {[1..k -> S] : k \in 0..n}

DistinctKeys(pairs) ==
    \A i, j \in 1..Len(pairs) : i # j => pairs[i].key # pairs[j].key

\* The dataset of the scenario: apple, application.
AppDataset ==
    [t |-> "array",
     items |-> <<Obj(Str(<<"a", "p", "p", "l", "e">>),
                     Str(<<"a", " ", "f", "r", "u", "i", "t">>)),
                 Obj(Str(<<"a", "p", "p", "l", "i", "c", "a", "t", "i", "o", "n">>),
                     Str(<<"a", " ", "p", "r", "o", "g", "r", "a", "m">>))>>]

\* A dataset whose entries the fuzzy stage tells apart.
FuzzyDataset ==
    [t |-> "array",
     items |-> <<Obj(Str(<<"a", "b", "c", "b">>), Str(<<"x">>)),
                 Obj(Str(<<"a", "b">>), Str(<<"y">>)),
                 Obj(Str(<<"b", "a">>), Str(<<"z">>))>>]

EmptyArray == [t |-> "array", items |-> <<>>]
EmptyObject == [t |-> "object", items |-> <<>>]
JsonNull == [t |-> "null", items |-> <<>>]

\* What response.json() can yield.
JsonValues ==
    {[t |-> "array", items |-> a] : a \in SeqsUpTo(Items, MaxEntries)}
    \cup {[t |-> "object", items |-> o] :
             o \in {q \in SeqsUpTo(Pairs, MaxEntries) : DistinctKeys(q)}}
    \cup {JsonNull, [t |-> "number", items |-> <<>>],
          AppDataset, FuzzyDataset}

NotOk == [ok |-> FALSE, json |-> JsonNull]
Ok(json) == [ok |-> TRUE, json |-> json]

\* What fetch('words.json') can yield: a response that is not ok, or a body.
Responses == {NotOk} \cup {Ok(j) : j \in JsonValues}

\* The responses a load over a loaded store is tried with.
Reloads ==
    {NotOk, Ok(EmptyArray), Ok(EmptyObject), Ok(JsonNull), Ok(AppDataset),
     Ok([t |-> "array", items |-> <<Obj(Str(<<"A", "B">>), Str(<<"z">>))>>])}

\* The search terms tried, besides the lowercased words of the store.
Queries ==
    { <<>>, <<"a">>, <<"b">>, <<"a", "b">>, <<"A", "B">>,
      <<"a", "c", "b">>, <<"a", "b", "c">>, <<"a", "p", "p">> }

StoreQueries ==
    Queries \cup {ToLowerCase(words[i].word) : i \in 1..Len(words)}

-----------------------------------------------------------------------------
(* The store's operations *)

\* The record of a call: its name, its argument (term, response or count)
\* and what came of it: the list returned (results), the entry returned
\* (entry), or what loadWords ended with (signal: "loaded", or "showError"
\* when its catch clause ran).  For _fuzzyMatch, str and term are its
\* arguments and score is the number it returned.
NoCall ==
    [op |-> "none", term |-> <<>>, response |-> NotOk, count |-> 0,
     results |-> <<>>, entry |-> Null, signal |-> "",
     str |-> <<>>, score |-> Whole(0)]

\* #wordDisplay with no search result in it.
NoDisplay == [results |-> <<>>, loadMore |-> FALSE]

Init ==
    /\ words = <<>>
    /\ isLoaded = FALSE
    /\ wordIndex = EmptyMap
    /\ sortedWords = <<>>
    /\ call = NoCall
    /\ pc = "idle"
    /\ maxCount = 0
    /\ selectedIndices = {}
    /\ result = <<>>
    /\ inputValue = <<>>
    /\ searchDebounceTimer = <<>>
    /\ rafQueue = <<>>
    /\ cachedSearchResults = <<>>
    /\ currentSearchResults = <<>>
    /\ currentSearchTerm = <<>>
    /\ displayedResultsCount = 0
    /\ wordDisplay = NoDisplay
    /\ isSearchMode = FALSE
    /\ lastSearchTerm = <<>>
    /\ issued = <<>>
    /\ insertions = <<>>

\* loadWords with the response fetch yields.  The awaits come before the
\* first change of the store; parseJSON and the rest run without a break.
loadWords(response) ==
    /\ pc = "idle"
    /\ IF ~response.ok
       THEN /\ UNCHANGED storeVars
            /\ call' = [NoCall EXCEPT !.op = "loadWords",
                                       !.response = response,
                                       !.signal = "showError"]
       ELSE LET parsed == parseJSON(response.json)
            IN /\ words' = parsed.words
               /\ wordIndex' = parsed.wordIndex
               /\ sortedWords' = parsed.sortedWords
               /\ isLoaded' = IF parsed.threw THEN isLoaded ELSE TRUE
               /\ call' = [NoCall EXCEPT
                               !.op = "loadWords",
                               !.response = response,
                               !.signal = IF parsed.threw THEN "showError"
                                          ELSE "loaded"]
    /\ UNCHANGED <<drawVars, pageVars>>

SearchWords(searchTerm) ==
    /\ pc = "idle"
    /\ call' = [NoCall EXCEPT !.op = "searchWords",
                               !.term = searchTerm,
                               !.results = searchWords(searchTerm)]
    /\ UNCHANGED <<storeVars, drawVars, pageVars>>

GetRandomWord(randomIndex) ==
    /\ pc = "idle"
    /\ call' = [NoCall EXCEPT !.op = "getRandomWord",
                               !.entry = getRandomWord(randomIndex)]
    /\ UNCHANGED <<storeVars, drawVars, pageVars>>

\* getMultipleRandomWords(count) up to its loop.
GetMultipleRandomWords(count) ==
    /\ pc = "idle"
    /\ call' = [NoCall EXCEPT !.op = "getMultipleRandomWords",
                               !.count = count]
    /\ IF ~isLoaded \/ Len(words) = 0
       THEN UNCHANGED drawVars
       ELSE /\ maxCount' = Min(count, Len(words))
            /\ selectedIndices' = {}
            /\ result' = <<>>
            /\ pc' = "drawing"
    /\ UNCHANGED <<storeVars, pageVars>>

\* One turn of the loop that takes the index drawn whether selectedIndices
\* has it or not.
DrawIndexNoRejection(randomIndex) ==
    /\ pc = "drawing"
    /\ Cardinality(selectedIndices) < maxCount
    /\ selectedIndices' = selectedIndices \cup {randomIndex}
    /\ result' = Append(result,
                     [index |-> randomIndex, entry |-> words[randomIndex + 1]])
    /\ UNCHANGED <<storeVars, call, pc, maxCount, pageVars>>

\* One turn of the loop when Math.random never yields the last index.
DrawIndexBelowLast(randomIndex) ==
    /\ pc = "drawing"
    /\ Cardinality(selectedIndices) < maxCount
    /\ randomIndex < Len(words) - 1
    /\ IF randomIndex \notin selectedIndices
       THEN /\ selectedIndices' = selectedIndices \cup {randomIndex}
            /\ result' = Append(result,
                             [index |-> randomIndex,
                              entry |-> words[randomIndex + 1]])
       ELSE UNCHANGED <<selectedIndices, result>>
    /\ UNCHANGED <<storeVars, call, pc, maxCount, pageVars>>

\* One turn of the loop, with the index drawn.  An element of result is the
\* entry this.words[randomIndex], a reference: its position and its value.
DrawIndex(randomIndex) ==
    /\ pc = "drawing"
    /\ Cardinality(selectedIndices) < maxCount
    /\ IF randomIndex \notin selectedIndices
       THEN /\ selectedIndices' = selectedIndices \cup {randomIndex}
            /\ result' = Append(result,
                             [index |-> randomIndex,
                              entry |-> words[randomIndex + 1]])
       ELSE UNCHANGED <<selectedIndices, result>>
    /\ UNCHANGED <<storeVars, call, pc, maxCount, pageVars>>

\* The loop's exit and the return of result.
ReturnMultiple ==
    /\ pc = "drawing"
    /\ ~(Cardinality(selectedIndices) < maxCount)
    /\ pc' = "idle"
    /\ call' = [call EXCEPT !.results = result]
    /\ UNCHANGED <<storeVars, maxCount, selectedIndices, result, pageVars>>

\* _fuzzyMatch called on its own, with the arguments call.str, call.term.
FuzzyMatch ==
    /\ pc = "idle"
    /\ call.op = "none"
    /\ call' = [call EXCEPT !.op = "_fuzzyMatch",
                            !.score = fuzzyMatch(call.str, call.term)]
    /\ UNCHANGED <<storeVars, drawVars, pageVars>>

vars == <<storeVars, call, drawVars, pageVars>>

Next ==
    \/ \E response \in (IF isLoaded THEN Reloads ELSE Responses) :
           loadWords(response)
    \/ \E searchTerm \in StoreQueries : SearchWords(searchTerm)
    \/ \E randomIndex \in RandomIndices : GetRandomWord(randomIndex)
    \/ \E count \in -1..MaxCount : GetMultipleRandomWords(count)
    \/ \E randomIndex \in RandomIndices : DrawIndex(randomIndex)
    \/ ReturnMultiple

Spec == Init /\ [][Next]_vars

\* The indices of the largest store of Spec.
StoreIndices == 0..(Max(MaxEntries, Len(FuzzyDataset.items)) - 1)

\* The loop draws randomIndex, an index of the store.
Draws(randomIndex) == randomIndex \in RandomIndices /\ DrawIndex(randomIndex)

\* The store with a random source that keeps yielding every index while the
\* loop of getMultipleRandomWords runs, and a loop that goes on to its exit.
SpecFair ==
    /\ Spec
    /\ \A randomIndex \in StoreIndices : WF_vars(Draws(randomIndex))
    /\ WF_vars(ReturnMultiple)

MaxLen == 3

\* The strings _fuzzyMatch is tried on: every string of up to MaxLen
\* characters out of a, b, A, and the strings hello, ell, hlo.
MatcherStrings ==
    SeqsUpTo({"a", "b", "A"}, MaxLen)
    \cup { <<"h", "e", "l", "l", "o">>, <<"e", "l", "l">>,
           <<"h", "l", "o">> }

\* A store just constructed and the arguments of a call of _fuzzyMatch.
InitMatcher ==
    /\ words = <<>>
    /\ isLoaded = FALSE
    /\ wordIndex = EmptyMap
    /\ sortedWords = <<>>
    /\ call \in {[NoCall EXCEPT !.str = str, !.term = term] :
                    str \in MatcherStrings, term \in MatcherStrings}
    /\ pc = "idle"
    /\ maxCount = 0
    /\ selectedIndices = {}
    /\ result = <<>>
    /\ inputValue = <<>>
    /\ searchDebounceTimer = <<>>
    /\ rafQueue = <<>>
    /\ cachedSearchResults = <<>>
    /\ currentSearchResults = <<>>
    /\ currentSearchTerm = <<>>
    /\ displayedResultsCount = 0
    /\ wordDisplay = NoDisplay
    /\ isSearchMode = FALSE
    /\ lastSearchTerm = <<>>
    /\ issued = <<>>
    /\ insertions = <<>>

NextMatcher == FuzzyMatch

\* The matcher on its own.
SpecMatcher == InitMatcher /\ [][NextMatcher]_vars

-----------------------------------------------------------------------------
(* The page: search session and result cache *)

RESULTS_PER_PAGE == 10
CACHE_SIZE_LIMIT == 50

\* cachedSearchResults.has(key), .get(key), .keys()
cacheHas(cache, key) == \E i \in 1..Len(cache) : cache[i].key = key

cacheGet(cache, key) ==
    cache[CHOOSE i \in 1..Len(cache) : cache[i].key = key].value

cacheKeys(cache) == [i \in 1..Len(cache) |-> cache[i].key]

\* Map.prototype.set: a key the map holds keeps its place.
cacheSet(cache, key, value) ==
    IF cacheHas(cache, key)
    THEN [i \in 1..Len(cache) |->
             IF cache[i].key = key THEN [key |-> key, value |-> value]
             ELSE cache[i]]
    ELSE Append(cache, [key |-> key, value |-> value])

\* cacheResults with the first key going only above the limit.
cacheResultsAboveLimit(cache, searchTerm, results) ==
    cacheSet(IF Len(cache) > CACHE_SIZE_LIMIT THEN Tail(cache) ELSE cache,
             searchTerm, results)

\* "Cache the results": the first key goes when the map is at its limit.
cacheResults(cache, searchTerm, results) ==
    cacheSet(IF Len(cache) >= CACHE_SIZE_LIMIT THEN Tail(cache) ELSE cache,
             searchTerm, results)

\* displaySearchResults with every call starting at the first result.
displaySearchResultsRestart(results, searchTerm, isLoadMore) ==
    LET startIndex == 0
        endIndex == Min(startIndex + RESULTS_PER_PAGE, Len(results))
        resultsToShow == SubSeq(results, startIndex + 1, endIndex)
    IN  [currentSearchResults |->
             IF isLoadMore THEN currentSearchResults ELSE results,
         currentSearchTerm |->
             IF isLoadMore THEN currentSearchTerm ELSE searchTerm,
         displayedResultsCount |-> endIndex,
         wordDisplay |->
             [results |-> IF isLoadMore
                          THEN wordDisplay.results \o resultsToShow
                          ELSE resultsToShow,
              loadMore |-> endIndex < Len(results)]]

\* displaySearchResults(results, searchTerm, isLoadMore): the search state
\* it leaves.
displaySearchResults(results, searchTerm, isLoadMore) ==
    LET startIndex == IF isLoadMore THEN displayedResultsCount ELSE 0
        endIndex == Min(startIndex + RESULTS_PER_PAGE, Len(results))
        resultsToShow == SubSeq(results, startIndex + 1, endIndex)
    IN  [currentSearchResults |->
             IF isLoadMore THEN currentSearchResults ELSE results,
         currentSearchTerm |->
             IF isLoadMore THEN currentSearchTerm ELSE searchTerm,
         displayedResultsCount |-> endIndex,
         wordDisplay |->
             [results |-> IF isLoadMore
                          THEN wordDisplay.results \o resultsToShow
                          ELSE resultsToShow,
              loadMore |-> endIndex < Len(results)]]

Display(shown) ==
    /\ currentSearchResults' = shown.currentSearchResults
    /\ currentSearchTerm' = shown.currentSearchTerm
    /\ displayedResultsCount' = shown.displayedResultsCount
    /\ wordDisplay' = shown.wordDisplay

\* performLiveSearch(searchTerm) up to its return: the search state, the
\* callback it registers.  The timer and the input box are its callers'.
performLiveSearch(searchTerm) ==
    IF ~isLoaded
    THEN UNCHANGED <<shownVars, isSearchMode, lastSearchTerm, rafQueue,
                     issued>>
    ELSE /\ issued' = searchTerm
         /\ IF cacheHas(cachedSearchResults, searchTerm)
            THEN /\ Display(displaySearchResults(
                         cacheGet(cachedSearchResults, searchTerm),
                         searchTerm, FALSE))
                 /\ UNCHANGED <<isSearchMode, lastSearchTerm, rafQueue>>
            ELSE /\ isSearchMode' = TRUE
                 /\ lastSearchTerm' = searchTerm
                 /\ rafQueue' = Append(rafQueue, searchTerm)
                 /\ UNCHANGED shownVars

\* The search state clearSearch leaves, but for the timer.
clearSearch ==
    /\ inputValue' = <<>>
    /\ currentSearchResults' = <<>>
    /\ currentSearchTerm' = <<>>
    /\ displayedResultsCount' = 0
    /\ wordDisplay' = NoDisplay
    /\ isSearchMode' = FALSE
    /\ lastSearchTerm' = <<>>
    /\ cachedSearchResults' =
           IF Len(cachedSearchResults) > 20 THEN <<>>
           ELSE cachedSearchResults
    /\ searchDebounceTimer' = <<>>
    /\ issued' = <<>>
    /\ insertions' =
           IF Len(cachedSearchResults) > 20 THEN <<>> ELSE insertions
    /\ UNCHANGED rafQueue

MaxPending == 2

\* performLiveSearch(query) would register no callback beyond MaxPending.
RoomFor(query) ==
    (isLoaded /\ ~cacheHas(cachedSearchResults, query))
    => Len(rafQueue) < MaxPending

\* The input listener of searchInput, for e.target.value = value.
InputEvent(value) ==
    LET query == Trim(value)
    IN  /\ pc = "idle"
        /\ IF Len(query) = 0
           THEN clearSearch
           ELSE /\ inputValue' = value
                /\ searchDebounceTimer' =
                       IF Len(query) < 2 THEN <<>> ELSE <<query>>
                /\ UNCHANGED <<rafQueue, cachedSearchResults, shownVars,
                               isSearchMode, lastSearchTerm, issued,
                               insertions>>
        /\ UNCHANGED <<storeVars, call, drawVars>>

\* The debounce timeout fires.
TimerFires ==
    /\ pc = "idle"
    /\ searchDebounceTimer # <<>>
    /\ RoomFor(searchDebounceTimer[1])
    /\ performLiveSearch(searchDebounceTimer[1])
    /\ searchDebounceTimer' = <<>>
    /\ UNCHANGED <<inputValue, cachedSearchResults, insertions, storeVars,
                   call, drawVars>>

\* The keydown listener of searchInput, for the Enter key.
EnterKey ==
    LET query == Trim(inputValue)
    IN  /\ pc = "idle"
        /\ searchDebounceTimer' = <<>>
        /\ IF Len(query) >= 2
           THEN RoomFor(query) /\ performLiveSearch(query)
           ELSE UNCHANGED <<shownVars, isSearchMode, lastSearchTerm,
                            rafQueue, issued>>
        /\ UNCHANGED <<inputValue, cachedSearchResults, insertions,
                       storeVars, call, drawVars>>

\* The cache and the search state the callbacks of a frame start from.
pageState ==
    [cache |-> cachedSearchResults,
     insertions |-> insertions,
     shown |-> [currentSearchResults |-> currentSearchResults,
                currentSearchTerm |-> currentSearchTerm,
                displayedResultsCount |-> displayedResultsCount,
                wordDisplay |-> wordDisplay]]

\* The callback performLiveSearch registers, from the results of its search
\* on: they are cached, then shown.
showResults(st, searchTerm, results) ==
    [cache |-> cacheResults(st.cache, searchTerm, results),
     insertions |->
         IF \E i \in 1..Len(st.insertions) : st.insertions[i] = searchTerm
         THEN st.insertions
         ELSE Append(st.insertions, searchTerm),
     shown |-> IF Len(results) > 0
               THEN displaySearchResults(results, searchTerm, FALSE)
               ELSE [currentSearchResults |-> <<>>,
                     currentSearchTerm |-> <<>>,
                     displayedResultsCount |-> 0,
                     wordDisplay |-> NoDisplay]]

\* The callback performLiveSearch registers, run for searchTerm on the
\* cache and the search state st = [cache, shown, insertions].
searchCallback(st, searchTerm) ==
    showResults(st, searchTerm, searchWords(searchTerm))

RECURSIVE runCallbacks(_, _)
runCallbacks(queue, st) ==
    IF queue = <<>> THEN st
    ELSE runCallbacks(Tail(queue), searchCallback(st, Head(queue)))

\* An animation frame: the browser runs the callbacks registered since the
\* last frame one after the other, in the order of their registration, and
\* no other task runs in between.
AnimationFrame ==
    /\ pc = "idle"
    /\ rafQueue # <<>>
    /\ \E st \in {runCallbacks(rafQueue, pageState)} :
           /\ rafQueue' = <<>>
           /\ cachedSearchResults' = st.cache
           /\ insertions' = st.insertions
           /\ Display(st.shown)
    /\ UNCHANGED <<inputValue, searchDebounceTimer, isSearchMode,
                   lastSearchTerm, issued, storeVars, call, drawVars>>

\* The document's keydown listener, for the Escape key.
EscapeKey ==
    /\ pc = "idle"
    /\ clearSearch
    /\ UNCHANGED <<storeVars, call, drawVars>>

\* loadMoreResults, the onclick of the button under the results.
loadMoreResults ==
    /\ pc = "idle"
    /\ wordDisplay.loadMore
    /\ IF Len(currentSearchResults) > 0
       THEN Display(displaySearchResults(currentSearchResults,
                                         currentSearchTerm, TRUE))
       ELSE UNCHANGED shownVars
    /\ UNCHANGED <<inputValue, searchDebounceTimer, rafQueue,
                   cachedSearchResults, isSearchMode, lastSearchTerm, issued,
                   insertions, storeVars, call, drawVars>>

\* The page's getRandomWord and getMultipleWords, as far as the search
\* state goes: clearSearch when in search mode, and the words drawn from a
\* store that has some take the place of what #wordDisplay held.
RandomButton ==
    /\ pc = "idle"
    /\ IF isSearchMode THEN clearSearch
       ELSE /\ wordDisplay' =
                  IF isLoaded /\ Len(words) > 0 THEN NoDisplay
                  ELSE wordDisplay
            /\ UNCHANGED <<inputValue, searchDebounceTimer, rafQueue,
                           cachedSearchResults, currentSearchResults,
                           currentSearchTerm, displayedResultsCount,
                           isSearchMode, lastSearchTerm, issued, insertions>>
    /\ UNCHANGED <<storeVars, call, drawVars>>

\* The load the constructor starts comes to its end.
ConstructorLoad(response) ==
    /\ call.op = "none"
    /\ loadWords(response)

PageEntries == 12

\* The text "ab" followed by n times "a".
Typed(n) == <<"a", "b">> \o [i \in 1..n |-> "a"]

\* The dataset behind the page: the words ab, aba, abaa, ...
PageDataset ==
    [t |-> "array",
     items |-> [j \in 1..PageEntries |->
                   Obj(Str(Typed(j - 1)), Str(<<"d">>))]]

\* What the input box is set to: nothing, one character, terms with more
\* results than a page shows, a padded term, a term without a result.
PageValues ==
    { <<>>, <<"a">>, Typed(0), Typed(1), <<" ", "a", "b">>, <<"b", "b">> }

NextPage ==
    \/ \E response \in {Ok(PageDataset), NotOk} : ConstructorLoad(response)
    \/ \E value \in PageValues : InputEvent(value)
    \/ TimerFires
    \/ EnterKey
    \/ AnimationFrame
    \/ EscapeKey
    \/ loadMoreResults
    \/ RandomButton

\* The page with its input box set to any of PageValues at any time.
SpecPage == Init /\ [][NextPage]_vars

MaxTyped == 51

\* The dataset behind the typing session: the words ab, aba.
SessionDataset ==
    [t |-> "array",
     items |-> <<Obj(Str(Typed(0)), Str(<<"d">>)),
                 Obj(Str(Typed(1)), Str(<<"e">>))>>]

\* The next text of a user who types ab, aba, abaa, ... a character at a
\* time.
NextTyped(value) ==
    IF Len(value) < 2 THEN SubSeq(Typed(0), 1, Len(value) + 1)
    ELSE Append(value, "a")

\* A keystroke of the typing session: the next character, typed once the
\* search of the keystroke before has started.  The session starts with
\* nothing cached and nothing pending, and it ends when the box is emptied.
Keystroke ==
    /\ searchDebounceTimer = <<>>
    /\ Len(inputValue) < Len(Typed(MaxTyped))
    /\ inputValue = <<>> => (cachedSearchResults = <<>> /\ rafQueue = <<>>)
    /\ InputEvent(NextTyped(inputValue))

\* The input box is emptied.
EmptyInput == InputEvent(<<>>)

NextSession ==
    \/ ConstructorLoad(Ok(SessionDataset))
    \/ Keystroke
    \/ EmptyInput
    \/ TimerFires
    \/ EnterKey
    \/ AnimationFrame
    \/ EscapeKey

\* The page in a typing session: terms that grow by a character, more of
\* them than the cache holds.
SpecSession == Init /\ [][NextSession]_vars

PagingEntries == 23

\* The dataset behind the paging of results: the words ab, aba, abaa, ...
PagingDataset ==
    [t |-> "array",
     items |-> [j \in 1..PagingEntries |->
                   Obj(Str(Typed(j - 1)), Str(<<"d">>))]]

\* What the input box is set to: nothing, a term with more results than two
\* pages show, a term with fewer than a page shows, a term without a result.
PagingValues ==
    { <<>>, Typed(0), Typed(PagingEntries - 6), <<"b", "b">> }

NextPaging ==
    \/ ConstructorLoad(Ok(PagingDataset))
    \/ \E value \in PagingValues : InputEvent(value)
    \/ TimerFires
    \/ EnterKey
    \/ AnimationFrame
    \/ EscapeKey
    \/ loadMoreResults
    \/ RandomButton

\* The page over a dataset whose results take more than two pages.
SpecPaging == Init /\ [][NextPaging]_vars

-----------------------------------------------------------------------------
(* The store over a large dataset *)

LargeEntries == 503

\* The decimal digits of n > 0.
RECURSIVE Digits(_)
Digits(n) ==
    IF n = 0 THEN <<>>
    ELSE Append(Digits(n \div 10),
                <<"0", "1", "2", "3", "4", "5", "6", "7", "8", "9">>[(n % 10) + 1])

\* A dataset of more entries than the scan collects fast matches and than
\* the fuzzy loop scores: the word a in the last place, ab in every tenth
\* place, abab in the others; the definition of an entry is its place.
LargeDataset ==
    [t |-> "array",
     items |-> [j \in 1..LargeEntries |->
                   Obj(Str(IF j = LargeEntries THEN <<"a">>
                           ELSE IF j % 10 = 0 THEN <<"a", "b">>
                           ELSE <<"a", "b", "a", "b">>),
                       Str(Digits(j)))]]

\* The terms the large store is searched with.
LargeQueries == SeqsUpTo({"a", "b", "c", "A"}, 3)

\* The search of a run: searchWords leaves the store as it is, so one
\* search after the load stands for any.
LargeSearch(searchTerm) ==
    /\ call.op # "searchWords"
    /\ SearchWords(searchTerm)

NextLarge ==
    \/ ConstructorLoad(Ok(LargeDataset))
    \/ \E searchTerm \in LargeQueries : LargeSearch(searchTerm)

\* The store over the large dataset.
SpecLarge == Init /\ [][NextLarge]_vars

-----------------------------------------------------------------------------
(* Claims about the store *)

LastSearch == call.op = "searchWords"

\* The result built from a store entry with a score.
Scored(entry, score) ==
    [word |-> entry.word, definition |-> entry.definition,
     score |-> score, matchType |-> "word"]

\* C1: after a successful load, the search for the lowercased word of any
\* entry returns a non-empty list whose first element is the entry indexed
\* under that word, with score 100.
C1_ExactWordFirst ==
    (LastSearch /\ isLoaded
        /\ \E i \in 1..Len(words) : call.term = ToLowerCase(words[i].word))
    => /\ call.results # <<>>
       /\ call.results[1] = Scored(wordIndex[call.term].entry, Whole(100))

C3_FastScores ==
    (LastSearch /\ isLoaded /\ call.term # <<>>)
    => LET termLower == ToLowerCase(call.term)
           scanned == scanWords(call.term, 0, <<>>, <<>>).scanned
           Returned(entry, score) ==
               /\ \E k \in 1..Len(call.results) :
                      call.results[k] = Scored(entry, score)
               /\ \A k \in 1..Len(call.results) :
                      (/\ call.results[k].word = entry.word
                       /\ call.results[k].definition = entry.definition)
                      => call.results[k].score = score
       IN /\ \A i \in 1..scanned :
                 LET wordLower == ToLowerCase(words[i].word)
                 IN wordLower # termLower
                    => /\ StartsWith(wordLower, termLower)
                          => Returned(words[i], Whole(90))
                       /\ (/\ Includes(wordLower, termLower)
                           /\ ~StartsWith(wordLower, termLower))
                          => Returned(words[i], Whole(80))
          /\ (/\ words = filterMapArray(AppDataset.items)
              /\ call.term = <<"a", "p", "p">>)
             => /\ call.results = <<Scored(words[1], Whole(90)),
                                Scored(words[2], Whole(90))>>
                /\ Len(words) = 2

\* A search that returned a prefix match and a substring match.
C3_Witness ==
    /\ LastSearch
    /\ \E k, l \in 1..Len(call.results) :
           /\ call.results[k].score = Whole(90)
           /\ call.results[l].score = Whole(80)
           /\ ToLowerCase(call.results[l].word) # ToLowerCase(call.term)

\* C4: while the store is not loaded searchWords returns the empty list,
\* getRandomWord returns null and getMultipleRandomWords returns the empty
\* list; searchWords with the empty term returns the empty list on any
\* store.  Every call ends with a value.
C4_FailClosed ==
    /\ (LastSearch /\ (~isLoaded \/ call.term = <<>>)) => call.results = <<>>
    /\ (call.op = "getRandomWord" /\ ~isLoaded) => call.entry = Null
    /\ (call.op = "getMultipleRandomWords" /\ ~isLoaded)
       => (pc = "idle" /\ call.results = <<>>)

\* A search with the empty term over a loaded store that holds an entry
\* whose word is not empty.
C4_Witness ==
    /\ LastSearch
    /\ call.term = <<>>
    /\ isLoaded
    /\ \E i \in 1..Len(words) : words[i].word # <<>>

\* C8: over a loaded store of N entries, getMultipleRandomWords(count) with
\* count >= 0 returns min(count, N) entries of pairwise different positions:
\* none for count = 0, every position once for count >= N.
C8_UniqueRandomWords ==
    (/\ call.op = "getMultipleRandomWords"
     /\ pc = "idle" /\ isLoaded /\ call.count >= 0)
    => LET N == Len(words)
           ret == call.results
       IN /\ Len(ret) = Min(call.count, N)
          /\ \A i, j \in 1..Len(ret) :
                 i # j => ret[i].index # ret[j].index
          /\ \A i \in 1..Len(ret) :
                 /\ ret[i].index \in 0..(N - 1)
                 /\ ret[i].entry = words[ret[i].index + 1]
          /\ call.count = 0 => ret = <<>>
          /\ call.count >= N => {ret[i].index : i \in 1..Len(ret)} = 0..(N - 1)

\* A call with count above N that returned every entry of a store of at
\* least two entries.
C8_Witness ==
    /\ call.op = "getMultipleRandomWords"
    /\ pc = "idle" /\ isLoaded
    /\ Len(words) >= 2
    /\ call.count > Len(words)
    /\ Len(call.results) = Len(words)

\* C18: a call of getMultipleRandomWords that entered its loop returns.
C18_DrawingTerminates ==
    (call.op = "getMultipleRandomWords" /\ pc = "drawing") ~> (pc = "idle")

\* A call with count = N that returned after drawing every index of a
\* store of three entries.
C18_Witness ==
    /\ call.op = "getMultipleRandomWords"
    /\ pc = "idle" /\ isLoaded
    /\ Len(words) = 3
    /\ call.count = Len(words)
    /\ selectedIndices = 0..(Len(words) - 1)

\* C9: a load that fails leaves entries, exactIndex, sortedWords and the
\* readiness flag as they were before it.
C9_FailedLoadKeepsStore ==
    [][(call'.op = "loadWords" /\ call'.signal = "showError")
       => UNCHANGED storeVars]_vars

\* The positions of this.words whose lowercased word is k.
PositionsOf(k) == {i \in 1..Len(words) : ToLowerCase(words[i].word) = k}

\* sorted is a rearrangement of this.words.
IsPermutation(sorted) ==
    /\ Len(sorted) = Len(words)
    /\ \E f \in [1..Len(words) -> 1..Len(words)] :
           /\ \A i, j \in 1..Len(words) : i # j => f[i] # f[j]
           /\ \A i \in 1..Len(words) : sorted[i] = words[f[i]]

\* C11: after a successful load every stored entry has a word and a
\* definition that are not empty and neither start nor end with white space.
C11_EntriesTrimmedNonEmpty ==
    isLoaded
    => \A i \in 1..Len(words) :
           /\ words[i].word # <<>>
           /\ words[i].definition # <<>>
           /\ ~IsSpace(Head(words[i].word))
           /\ ~IsSpace(words[i].word[Len(words[i].word)])
           /\ ~IsSpace(Head(words[i].definition))
           /\ ~IsSpace(words[i].definition[Len(words[i].definition)])

\* C10: between calls the indexes agree with the entries: the keys of
\* exactIndex are the lowercased words of the entries, a key maps to the
\* last entry of that lowercased word and its position, and sortedWords is
\* a rearrangement of the entries in case-insensitive word order.
C10_IndexesAgree ==
    pc = "idle"
    => /\ DOMAIN wordIndex =
              {ToLowerCase(words[i].word) : i \in 1..Len(words)}
       /\ \A k \in DOMAIN wordIndex :
              LET last == CHOOSE i \in PositionsOf(k) :
                              \A j \in PositionsOf(k) : j <= i
              IN wordIndex[k] = [entry |-> words[last], index |-> last - 1]
       /\ IsPermutation(sortedWords)
       /\ \A i \in 1..(Len(sortedWords) - 1) :
              localeCompare(ToLowerCase(sortedWords[i].word),
                            ToLowerCase(sortedWords[i + 1].word)) <= 0

\* C17: when the lowercased term is a key of wordIndex, searchWords returns
\* the indexed entry first with score 100, and every other entry whose
\* lowercased word starts with the lowercased term, an entry of the same
\* word ignoring case included, is returned as a prefix match with score 90.
C17_DuplicatesScanned ==
    (/\ LastSearch /\ isLoaded /\ call.term # <<>>
     /\ ToLowerCase(call.term) \in DOMAIN wordIndex)
    => LET termLower == ToLowerCase(call.term)
           exactMatch == wordIndex[termLower]
       IN /\ call.results # <<>>
          /\ call.results[1] = Scored(exactMatch.entry, Whole(100))
          /\ \A i \in 1..Len(words) :
                 (/\ i - 1 # exactMatch.index
                  /\ StartsWith(ToLowerCase(words[i].word), termLower))
                 => \E k \in 1..Len(call.results) :
                        call.results[k] = Scored(words[i], Whole(90))

\* C22: the matches behind the list searchWords returns come from
\* pairwise different positions of the store, so that no entry is returned
\* twice, and at most one result has score 100.
C22_NoEntryTwice ==
    LastSearch
    => LET matches == searchMatches(call.term)
       IN /\ call.results = [i \in 1..Len(matches) |-> toResult(matches[i])]
          /\ \A i, j \in 1..Len(matches) :
                 i # j => matches[i].pos # matches[j].pos
          /\ Cardinality({i \in 1..Len(call.results) :
                              call.results[i].score = Whole(100)}) <= 1

\* A search that returned the exact match and a match of the fuzzy stage.
C22_Witness ==
    /\ LastSearch
    /\ Len(call.results) >= 2
    /\ call.results[1].score = Whole(100)
    /\ \E k \in 2..Len(call.results) :
           call.results[k].score \notin {Whole(100), Whole(90), Whole(80)}

\* The positions of the entries the scan takes for fast matches of the
\* lowercased term: the word contains it and is not equal to it.
FastPositions(termLower) ==
    {i \in 1..Len(words) :
        /\ ToLowerCase(words[i].word) # termLower
        /\ Includes(ToLowerCase(words[i].word), termLower)}

\* The positions of the entries the scan defers to the fuzzy stage.
DeferredPositions(termLower) ==
    {i \in 1..Len(words) :
        /\ ToLowerCase(words[i].word) # termLower
        /\ ~Includes(ToLowerCase(words[i].word), termLower)}

\* Position i comes after the n-th position of P.
AfterNth(P, n, i) == Cardinality({q \in P : q < i}) >= n

\* The entry at position i is in the list returned.
Returns(i) ==
    \E k \in 1..Len(call.results) :
        /\ call.results[k].word = words[i].word
        /\ call.results[k].definition = words[i].definition

FastScores == {Whole(90), Whole(80)}

\* C15: the list searchWords returns holds at most 500 fast matches, and
\* no entry that comes after the 500th fast match of the term in load
\* order is returned, but for the entry indexed under the term.  (Entries are told apart by word
\* and definition.)
C15_ScanStopsAt500 ==
    (LastSearch /\ isLoaded /\ call.term # <<>>)
    => LET termLower == ToLowerCase(call.term)
           fast == FastPositions(termLower)
       IN /\ Cardinality({k \in 1..Len(call.results) :
                             call.results[k].score \in FastScores}) <= 500
          /\ \A i \in 1..Len(words) :
                 (/\ AfterNth(fast, 500, i)
                  /\ ~(/\ termLower \in DOMAIN wordIndex
                       /\ wordIndex[termLower].index = i - 1))
                 => ~Returns(i)

\* A search over a store of more than 501 entries that returned the exact
\* match and 500 fast matches.
C15_Witness ==
    /\ LastSearch
    /\ Len(words) > 501
    /\ Len(call.results) = 501
    /\ call.results[1].score = Whole(100)
    /\ \A k \in 2..501 : call.results[k].score \in FastScores

\* C16: when the term is shorter than 3 characters or the exact and fast
\* matches number 50 or more, every entry returned contains the lowercased
\* term in its lowercased word and has score 100, 90 or 80; and no entry
\* after the 500th deferred one in load order is returned.
C16_FuzzyStageBounded ==
    (LastSearch /\ isLoaded /\ call.term # <<>>)
    => LET termLower == ToLowerCase(call.term)
           exact == IF termLower \in DOMAIN wordIndex THEN 1 ELSE 0
           fast == Min(Cardinality(FastPositions(termLower)), 500)
           deferred == DeferredPositions(termLower)
       IN /\ (Len(call.term) < 3 \/ exact + fast >= 50)
             => \A k \in 1..Len(call.results) :
                    /\ Includes(ToLowerCase(call.results[k].word), termLower)
                    /\ call.results[k].score
                           \in FastScores \cup {Whole(100)}
          /\ \A i \in deferred : AfterNth(deferred, 500, i) => ~Returns(i)

\* A search for a term of 3 characters with 50 fast matches or more, over
\* a store with an entry the matcher scores above 0 against the term
\* though its word does not contain it.
C16_Witness ==
    /\ LastSearch /\ isLoaded
    /\ Len(call.term) >= 3
    /\ Len(call.results) >= 50
    /\ \A k \in 1..50 : call.results[k].score \in FastScores
    /\ \E i \in DeferredPositions(ToLowerCase(call.term)) :
           ScoreGreater(fuzzyMatch(words[i].word, call.term), Whole(0))

-----------------------------------------------------------------------------
(* Claims about the page *)

\* C7: once every pending search callback has run, the results presented
\* are those of the term of the latest performLiveSearch call (with the
\* presented term empty when that search found nothing).
C7_LastQueryWins ==
    (rafQueue = <<>> /\ issued # <<>>)
    => /\ currentSearchResults = searchWords(issued)
       /\ currentSearchTerm = issued
          \/ (currentSearchTerm = <<>> /\ searchWords(issued) = <<>>)

\* C5: the cache evicts in the order of insertion: once 51 distinct queries
\* have been stored with no clear in between, the cache holds the 50 stored
\* last, in their order, and the one stored first is gone, whatever cache
\* hits came in between.
C5_FifoEviction ==
    Len(insertions) = CACHE_SIZE_LIMIT + 1
    => /\ cacheKeys(cachedSearchResults) = Tail(insertions)
       /\ ~cacheHas(cachedSearchResults, Head(insertions))

\* C6: the cache never holds more than CACHE_SIZE_LIMIT entries.
C6_CacheBounded == Len(cachedSearchResults) <= CACHE_SIZE_LIMIT

\* A full cache that a further query was stored into.
C6_Witness ==
    /\ Len(cachedSearchResults) = CACHE_SIZE_LIMIT
    /\ Len(insertions) > CACHE_SIZE_LIMIT

\* C19: from a clearSearch until the next query is issued the presented
\* search state is the cleared one, whatever callback was pending when
\* clearSearch ran.
C19_ClearedStaysCleared ==
    issued = <<>>
    => /\ currentSearchResults = <<>>
       /\ currentSearchTerm = <<>>
       /\ displayedResultsCount = 0

\* C20: a callback that stores the results of a query the cache already
\* holds leaves the keys of the cache as they are, in every state and for
\* every callback of the pending frame, run after those registered before it.
C20_RestoreEvictsNothing ==
    \A i \in 1..Len(rafQueue) :
        \A before \in {runCallbacks(SubSeq(rafQueue, 1, i - 1), pageState)} :
            \A after \in {searchCallback(before, rafQueue[i])} :
                cacheHas(before.cache, rafQueue[i])
                => cacheKeys(after.cache) = cacheKeys(before.cache)

\* The step shows nothing of a search any more: clearSearch, a search
\* without a result, or random words in the place of the results.
NothingShown ==
    /\ wordDisplay' = NoDisplay
    /\ \/ displayedResultsCount' = 0 /\ currentSearchResults' = <<>>
       \/ UNCHANGED <<currentSearchResults, displayedResultsCount>>

\* The step presents a new search: the first page of its results.
NewSearchShown ==
    /\ displayedResultsCount' =
           Min(RESULTS_PER_PAGE, Len(currentSearchResults'))
    /\ wordDisplay'.results =
           SubSeq(currentSearchResults', 1, displayedResultsCount')

\* The step presents the next page of the same results under those shown.
MoreShown ==
    LET remaining == Len(currentSearchResults) - displayedResultsCount
    IN  /\ currentSearchResults' = currentSearchResults
        /\ remaining > 0
        /\ displayedResultsCount' =
               displayedResultsCount + Min(RESULTS_PER_PAGE, remaining)
        /\ wordDisplay'.results =
               wordDisplay.results \o
               SubSeq(currentSearchResults, displayedResultsCount + 1,
                      displayedResultsCount')

\* C21: displayedResultsCount stays between 0 and the number of current
\* results; the results rendered are the first displayedResultsCount of
\* them, a whole number of pages or all, with the load-more button under
\* them exactly while some remain; a new search presents min(10, length)
\* results and each loadMoreResults adds the next min(10, remaining) > 0 of
\* them, so that finitely many calls present them all.
C21_Pagination ==
    /\ [](/\ 0 <= displayedResultsCount
          /\ displayedResultsCount <= Len(currentSearchResults))
    /\ [](wordDisplay.results # <<>>
          => /\ wordDisplay.results =
                    SubSeq(currentSearchResults, 1, displayedResultsCount)
             /\ \/ displayedResultsCount = Len(currentSearchResults)
                \/ displayedResultsCount % RESULTS_PER_PAGE = 0
             /\ wordDisplay.loadMore
                    <=> displayedResultsCount < Len(currentSearchResults))
    /\ [](wordDisplay.loadMore => wordDisplay.results # <<>>)
    /\ [][/\ loadMoreResults => MoreShown
           /\ (NothingShown \/ NewSearchShown \/ MoreShown)]_shownVars

\* All the results of a search of more than two pages are presented, the
\* last of them by a loadMoreResults that had fewer than a page left.
C21_Witness ==
    /\ Len(currentSearchResults) > 2 * RESULTS_PER_PAGE
    /\ Len(currentSearchResults) % RESULTS_PER_PAGE # 0
    /\ displayedResultsCount = Len(currentSearchResults)
    /\ wordDisplay.results = currentSearchResults

-----------------------------------------------------------------------------
(* Claims about the matcher *)

LastMatch == call.op = "_fuzzyMatch"

\* C12: the score of any candidate against the empty query is 0.
C12_EmptyQueryScoresZero ==
    (LastMatch /\ call.term = <<>>) => call.score = Whole(0)

\* C13: the score _fuzzyMatch returns is an integer between 0 and 100.
C13_IntegerScore ==
    LastMatch
    => /\ call.score.den = 1
       /\ call.score.num >= 0
       /\ call.score.num <= 100

\* t is s with some of its characters left out.
RECURSIVE IsSubsequence(_, _)
IsSubsequence(t, s) ==
    \/ t = <<>>
    \/ /\ s # <<>>
       /\ \/ Head(t) = Head(s) /\ IsSubsequence(Tail(t), Tail(s))
          \/ IsSubsequence(t, Tail(s))

\* C14: the tiers of the matcher in their order, letter case ignored: 100
\* for a candidate equal to the query; 80 for a candidate that differs from
\* a non-empty query and contains it; 60 for a candidate that does not
\* contain the query, differs from it in length by no more than the query's
\* length and has the query as a subsequence.  So hello scores 100 against
\* hello, 80 against ell and 60 against hlo.
C14_TierOrder ==
    LastMatch
    => LET strLower == ToLowerCase(call.str)
           termLower == ToLowerCase(call.term)
           hello == <<"h", "e", "l", "l", "o">>
       IN /\ strLower = termLower => call.score = Whole(100)
          /\ (/\ strLower # termLower
              /\ termLower # <<>>
              /\ Includes(strLower, termLower))
             => call.score = Whole(80)
          /\ (/\ ~Includes(strLower, termLower)
              /\ Abs(Len(strLower) - Len(termLower)) <= Len(termLower)
              /\ IsSubsequence(termLower, strLower))
             => call.score = Whole(60)
          /\ (call.str = hello /\ call.term = hello)
             => call.score = Whole(100)
          /\ (call.str = hello /\ call.term = <<"e", "l", "l">>)
             => call.score = Whole(80)
          /\ (call.str = hello /\ call.term = <<"h", "l", "o">>)
             => call.score = Whole(60)

\* A call the subsequence tier decided, for a candidate with a capital.
C14_Witness ==
    /\ LastMatch
    /\ call.score = Whole(60)
    /\ call.str # ToLowerCase(call.str)

====
